---------------------------- MODULE Spec2Model ----------------------------
(***************************************************************************)
(* A model of the blog-writing agents demo:                                *)
(*   - the two Streamlit front ends (src/app.py, src/mcp/app.py): one run  *)
(*     of main() for one state of the widgets, including the crew the run  *)
(*     builds and kicks off;                                               *)
(*   - the three tool functions of the MCP server                          *)
(*     (src/mcp/search_mcp/1/model.py);                                    *)
(*   - the test client (src/mcp/search_mcp/client.py).                     *)
(* Strings whose characters matter (the topic, file names) are sequences   *)
(* of one-character strings.                                               *)
(***************************************************************************)
EXTENDS Integers, Sequences, FiniteSets, TLC

VARIABLES
    \* ---- UI (src/app.py, src/mcp/app.py) ----
    variant,          \* "direct" (src/app.py) or "mcp" (src/mcp/app.py)
    topic,            \* st.text_input value
    generate_button,  \* st.button value of this script run
    pc,               \* position of main()
    display,          \* widgets written to the page, in order
    genStarted,       \* times the else-branch (spinner/try) was entered
    tasksCreated,     \* Task(...) objects constructed
    crewsCreated,     \* Crew(...) objects constructed
    kickoffs,         \* crew.kickoff() calls
    connectAttempts,  \* MCPServerAdapter(server_params) constructions
    mcpOpen,          \* the adapter's with-block is entered and not yet left
    taskState,        \* per task: "none" | "pending" | "running" | "done" | "failed"
    taskOutput,       \* per task: its output once done
    taskContextSeen,  \* per task: the context it was started with
    startOrder,       \* tasks in the order the runtime started them
    result,           \* value bound to result / final_output
    exc,              \* exception bound by the except clause
    \* ---- tool server (src/mcp/search_mcp/1/model.py) ----
    last,             \* the tool call being served: request, responses, outcome
    \* ---- test client (src/mcp/search_mcp/client.py) ----
    cpc,              \* position of the client's main()
    session,          \* "closed" | "open" | "exited"
    callLog,          \* call_tool calls: tool and the session state at the call
    printed           \* lines printed

uiVars == <<variant, topic, generate_button, pc, display, genStarted,
            tasksCreated, crewsCreated, kickoffs, connectAttempts, mcpOpen,
            taskState, taskOutput, taskContextSeen, startOrder, result, exc>>
toolVars == <<last>>
clientVars == <<cpc, session, callLog, printed>>
vars == <<uiVars, toolVars, clientVars>>

-----------------------------------------------------------------------------
(* Bounds *)

MaxTopicLen == 3

-----------------------------------------------------------------------------
(* Strings *)

\* Characters a topic is built from: two whitespace characters, a lower-case
\* and an upper-case letter.
Alphabet == {" ", "\t", "a", "B"}

\* Characters str.strip() removes.
Whitespace == {" ", "\t", "\n"}

Topics == UNION {[1..n -> Alphabet] : n \in 0..MaxTopicLen}

RECURSIVE LStrip(_)
LStrip(s) ==
    IF s = <<>> THEN s
    ELSE IF Head(s) \in Whitespace THEN LStrip(Tail(s)) ELSE s

RECURSIVE RStrip(_)
RStrip(s) ==
    IF s = <<>> THEN s
    ELSE IF s[Len(s)] \in Whitespace THEN RStrip(SubSeq(s, 1, Len(s) - 1)) ELSE s

StripIdentity(s) == s

\* str.strip()
Strip(s) == RStrip(LStrip(s))

\* str.replace(old, new) for one-character old and new
Replace(s, old, new) == [i \in 1..Len(s) |-> IF s[i] = old THEN new ELSE s[i]]

LowerChar(c) == IF c = "B" THEN "b" ELSE c

\* str.lower()
Lower(s) == [i \in 1..Len(s) |-> LowerChar(s[i])]

\* file_name= of st.download_button
FileName(v, t) ==
    IF v = "direct"
    THEN Replace(t, " ", "_") \o <<"_blog_post.md">>
    ELSE Lower(Replace(t, " ", "_")) \o <<"_blog.md">>

-----------------------------------------------------------------------------
(* Crew configuration *)

Variants == {"direct", "mcp"}
AllTasks == {"research_task", "writing_task", "plan_task", "write_task", "edit_task"}
Outputs == {"o1", "o2"}

CrewTasksMisordered(v) ==
    IF v = "direct"
    THEN <<"writing_task", "research_task">>
    ELSE <<"plan_task", "edit_task", "write_task">>

\* tasks=[...] of Crew(...)
CrewTasks(v) ==
    IF v = "direct"
    THEN <<"research_task", "writing_task">>
    ELSE <<"plan_task", "write_task", "edit_task">>

\* context=[...] of Task(...); <<>> where the task names none
TaskContext(t) ==
    CASE t = "writing_task" -> <<"research_task">>
      [] t = "write_task"   -> <<"plan_task">>
      [] t = "edit_task"    -> <<"write_task">>
      [] OTHER              -> <<>>

CatchesNotConnect(e) == e # "ConnectionError"

\* `except Exception as e`: every exception raised in the try block is an
\* Exception
Catches(e) == TRUE

ErrorPrefix(v) == IF v = "direct" THEN "And error occurred: " ELSE "An error occurred: "

BlankTopicError == "Please enter a topic for the blog post."

Widget(w, body, file) == [widget |-> w, body |-> body, file_name |-> file]

Shown(w) == \E i \in 1..Len(display) : display[i].widget = w

NoResult == [kind |-> "none", raw |-> "none"]


-----------------------------------------------------------------------------
(* Initial state: the modules are imported, main() has not run *)

InitUI ==
    /\ variant \in Variants
    /\ topic = <<>>
    /\ generate_button = FALSE
    /\ pc = "start"
    /\ display = <<>>
    /\ genStarted = 0
    /\ tasksCreated = 0
    /\ crewsCreated = 0
    /\ kickoffs = 0
    /\ connectAttempts = 0
    /\ mcpOpen = FALSE
    /\ taskState = [t \in AllTasks |-> "none"]
    /\ taskOutput = [t \in AllTasks |-> "none"]
    /\ taskContextSeen = [t \in AllTasks |-> <<>>]
    /\ startOrder = <<>>
    /\ result = NoResult
    /\ exc = "none"

-----------------------------------------------------------------------------
(* main() of the two front ends *)

runVars == <<taskState, taskOutput, taskContextSeen, startOrder>>
countVars == <<genStarted, tasksCreated, crewsCreated, kickoffs, connectAttempts>>

\* The page header, st.text_input and st.button: the widgets' values of this
\* script run.
CollectInput ==
    /\ pc = "start"
    /\ \E t \in Topics, b \in BOOLEAN :
          /\ topic' = t
          /\ generate_button' = b
    /\ pc' = "branch"
    /\ UNCHANGED <<variant, display, countVars, mcpOpen, runVars, result, exc,
                   toolVars, clientVars>>

\* `if generate_button:` is false
NoClick ==
    /\ pc = "branch"
    /\ ~generate_button
    /\ pc' = "sidebar"
    /\ UNCHANGED <<variant, topic, generate_button, display, countVars, mcpOpen,
                   runVars, result, exc, toolVars, clientVars>>

\* `if not topic.strip(): st.error(...)`
BlankTopic ==
    /\ pc = "branch"
    /\ generate_button
    /\ Strip(topic) = <<>>
    /\ display' = Append(display, Widget("error", <<BlankTopicError>>, <<>>))
    /\ pc' = "sidebar"
    /\ UNCHANGED <<variant, topic, generate_button, countVars, mcpOpen,
                   runVars, result, exc, toolVars, clientVars>>

\* `else: with st.spinner(...): try:`
StartGeneration ==
    /\ pc = "branch"
    /\ generate_button
    /\ Strip(topic) # <<>>
    /\ genStarted' = genStarted + 1
    /\ pc' = IF variant = "mcp" THEN "connect" ELSE "create_tasks"
    /\ UNCHANGED <<variant, topic, generate_button, display, tasksCreated,
                   crewsCreated, kickoffs, connectAttempts, mcpOpen, runVars,
                   result, exc, toolVars, clientVars>>

\* `with MCPServerAdapter(server_params) as mcp_tools:` connects
Connect ==
    /\ pc = "connect"
    /\ connectAttempts' = connectAttempts + 1
    /\ mcpOpen' = TRUE
    /\ pc' = "info"
    /\ UNCHANGED <<variant, topic, generate_button, display, genStarted,
                   tasksCreated, crewsCreated, kickoffs, runVars, result, exc,
                   toolVars, clientVars>>

\* Where a raised exception takes main(): to the except clause when it
\* catches the exception, out of main() otherwise.
Landing(e) == IF Catches(e) THEN "except" ELSE "propagated"

\* `with MCPServerAdapter(server_params)` raises: the server is unreachable
ConnectFail ==
    /\ pc = "connect"
    /\ connectAttempts' = connectAttempts + 1
    /\ exc' = "ConnectionError"
    /\ pc' = Landing("ConnectionError")
    /\ UNCHANGED <<variant, topic, generate_button, display, genStarted,
                   tasksCreated, crewsCreated, kickoffs, mcpOpen, runVars,
                   result, toolVars, clientVars>>

\* st.info("Connected to MCP Server. Tools: ...")
ShowInfo ==
    /\ pc = "info"
    /\ display' = Append(display, Widget("info", <<"Connected to MCP Server.">>, <<>>))
    /\ pc' = "create_tasks"
    /\ UNCHANGED <<variant, topic, generate_button, countVars, mcpOpen,
                   runVars, result, exc, toolVars, clientVars>>

\* create_tasks(topic) / the Agent(...) and Task(...) constructions
CreateTasks ==
    /\ pc = "create_tasks"
    /\ tasksCreated' = tasksCreated + Len(CrewTasks(variant))
    /\ taskState' = [t \in AllTasks |->
                        IF \E i \in 1..Len(CrewTasks(variant)) : CrewTasks(variant)[i] = t
                        THEN "pending" ELSE taskState[t]]
    /\ pc' = "create_crew"
    /\ UNCHANGED <<variant, topic, generate_button, display, genStarted,
                   crewsCreated, kickoffs, connectAttempts, mcpOpen, taskOutput,
                   taskContextSeen, startOrder, result, exc, toolVars, clientVars>>

\* Crew(agents=..., tasks=..., process=Process.sequential)
CreateCrew ==
    /\ pc = "create_crew"
    /\ crewsCreated' = crewsCreated + 1
    /\ pc' = "kickoff"
    /\ UNCHANGED <<variant, topic, generate_button, display, genStarted,
                   tasksCreated, kickoffs, connectAttempts, mcpOpen, runVars,
                   result, exc, toolVars, clientVars>>

\* crew.kickoff() is called
Kickoff ==
    /\ pc = "kickoff"
    /\ kickoffs' = kickoffs + 1
    /\ pc' = "running"
    /\ UNCHANGED <<variant, topic, generate_button, display, genStarted,
                   tasksCreated, crewsCreated, connectAttempts, mcpOpen, runVars,
                   result, exc, toolVars, clientVars>>

-----------------------------------------------------------------------------
(* The orchestration runtime, Process.sequential *)

Done(t) == taskState[t] = "done"

\* Index in the crew's task list of the next task to run; 0 when all are done
NextIndex ==
    LET todo == {i \in 1..Len(CrewTasks(variant)) : ~Done(CrewTasks(variant)[i])}
    IN IF todo = {} THEN 0 ELSE CHOOSE i \in todo : \A j \in todo : i <= j

RECURSIVE OutputsOf(_)
\* The outputs of those of the tasks ts that have one, in order
OutputsOf(ts) ==
    IF ts = <<>> THEN <<>>
    ELSE (IF Done(Head(ts)) THEN <<taskOutput[Head(ts)]>> ELSE <<>>) \o OutputsOf(Tail(ts))

\* The context a task is started with: the outputs of the tasks its context
\* names, or of all tasks run so far when it names none
ContextFor(t) ==
    IF TaskContext(t) # <<>> THEN OutputsOf(TaskContext(t)) ELSE OutputsOf(startOrder)

\* The runtime starts the next task of the list
StartTask ==
    /\ pc = "running"
    /\ NextIndex # 0
    /\ \A t \in AllTasks : taskState[t] # "running"
    /\ LET t == CrewTasks(variant)[NextIndex] IN
          /\ taskState' = [taskState EXCEPT ![t] = "running"]
          /\ taskContextSeen' = [taskContextSeen EXCEPT ![t] = ContextFor(t)]
          /\ startOrder' = Append(startOrder, t)
    /\ UNCHANGED <<variant, topic, generate_button, pc, display, countVars,
                   mcpOpen, taskOutput, result, exc, toolVars, clientVars>>

\* The running task's agent returns its output
FinishTask ==
    /\ pc = "running"
    /\ \E t \in AllTasks, o \in Outputs :
          /\ taskState[t] = "running"
          /\ taskState' = [taskState EXCEPT ![t] = "done"]
          /\ taskOutput' = [taskOutput EXCEPT ![t] = o]
    /\ UNCHANGED <<variant, topic, generate_button, pc, display, countVars,
                   mcpOpen, taskContextSeen, startOrder, result, exc,
                   toolVars, clientVars>>

\* crew.kickoff() raises: an LLM or tool call of the running task failed
KickoffFail ==
    /\ pc = "running"
    /\ taskState' = [t \in AllTasks |->
                        IF taskState[t] = "running" THEN "failed" ELSE taskState[t]]
    /\ exc' = "TaskError"
    /\ mcpOpen' = FALSE
    /\ pc' = Landing("TaskError")
    /\ UNCHANGED <<variant, topic, generate_button, display, countVars,
                   taskOutput, taskContextSeen, startOrder, result, toolVars,
                   clientVars>>

\* crew.kickoff() returns the last task's output: a plain string or a
\* CrewOutput object, by the runtime's version.  src/mcp/app.py converts it:
\* final_output = result.output if hasattr(result, "output") else str(result)
KickoffReturn ==
    /\ pc = "running"
    /\ NextIndex = 0
    /\ LET raw == taskOutput[CrewTasks(variant)[Len(CrewTasks(variant))]] IN
          \E k \in {"str", "CrewOutput"} :
             result' = [kind |-> IF variant = "mcp" THEN "str" ELSE k, raw |-> raw]
    /\ pc' = "success"
    /\ UNCHANGED <<variant, topic, generate_button, display, countVars, mcpOpen,
                   runVars, exc, toolVars, clientVars>>

-----------------------------------------------------------------------------
(* main(), after the kickoff *)

\* st.success("Blog post generated successfully!")
ShowSuccess ==
    /\ pc = "success"
    /\ display' = Append(display, Widget("success", <<"Blog post generated successfully!">>, <<>>))
    /\ pc' = "markdown"
    /\ UNCHANGED <<variant, topic, generate_button, countVars, mcpOpen,
                   runVars, result, exc, toolVars, clientVars>>

\* st.markdown(result) / st.markdown(final_output): renders str() of it
ShowMarkdown ==
    /\ pc = "markdown"
    /\ display' = Append(display, Widget("markdown", <<result.raw>>, <<>>))
    /\ pc' = "download"
    /\ UNCHANGED <<variant, topic, generate_button, countVars, mcpOpen,
                   runVars, result, exc, toolVars, clientVars>>

\* st.download_button(data=..., file_name=...): data must be a string (or
\* bytes or a file); src/app.py passes crew.kickoff()'s value unconverted
ShowDownload ==
    /\ pc = "download"
    /\ result.kind = "str"
    /\ display' = Append(display, Widget("download", <<result.raw>>, FileName(variant, topic)))
    /\ pc' = IF variant = "mcp" THEN "disconnect" ELSE "sidebar"
    /\ UNCHANGED <<variant, topic, generate_button, countVars, mcpOpen,
                   runVars, result, exc, toolVars, clientVars>>

\* The with-block of MCPServerAdapter is left: the adapter stops
Disconnect ==
    /\ pc = "disconnect"
    /\ mcpOpen' = FALSE
    /\ pc' = "sidebar"
    /\ UNCHANGED <<variant, topic, generate_button, display, countVars,
                   runVars, result, exc, toolVars, clientVars>>

\* st.download_button raises for data that is no string (nor bytes nor a
\* file): the CrewOutput object src/app.py passes on unconverted
DownloadRejected ==
    /\ pc = "download"
    /\ result.kind # "str"
    /\ exc' = "StreamlitAPIException"
    /\ mcpOpen' = FALSE
    /\ pc' = Landing("StreamlitAPIException")
    /\ UNCHANGED <<variant, topic, generate_button, display, countVars,
                   runVars, result, toolVars, clientVars>>

\* Leaving the with-block raises: stopping the adapter failed
DisconnectFail ==
    /\ pc = "disconnect"
    /\ exc' = "ConnectionError"
    /\ mcpOpen' = FALSE
    /\ pc' = Landing("ConnectionError")
    /\ UNCHANGED <<variant, topic, generate_button, display, countVars,
                   runVars, result, toolVars, clientVars>>

\* `except Exception as e: st.error(f"An error occurred: {e}")`
HandleException ==
    /\ pc = "except"
    /\ display' = Append(display, Widget("error", <<ErrorPrefix(variant), exc>>, <<>>))
    /\ pc' = "sidebar"
    /\ UNCHANGED <<variant, topic, generate_button, countVars, mcpOpen,
                   runVars, result, exc, toolVars, clientVars>>

\* `with st.sidebar:` ... ; main() returns
RenderSidebar ==
    /\ pc = "sidebar"
    /\ display' = Append(display, Widget("sidebar", <<"Information">>, <<>>))
    /\ pc' = "done"
    /\ UNCHANGED <<variant, topic, generate_button, countVars, mcpOpen,
                   runVars, result, exc, toolVars, clientVars>>

NextUI ==
    \/ CollectInput
    \/ NoClick
    \/ BlankTopic
    \/ StartGeneration
    \/ Connect
    \/ ConnectFail
    \/ ShowInfo
    \/ CreateTasks
    \/ CreateCrew
    \/ Kickoff
    \/ StartTask
    \/ FinishTask
    \/ KickoffFail
    \/ KickoffReturn
    \/ ShowSuccess
    \/ ShowMarkdown
    \/ ShowDownload
    \/ Disconnect
    \/ DownloadRejected
    \/ DisconnectFail
    \/ HandleException
    \/ RenderSidebar

-----------------------------------------------------------------------------
(* The tool server: src/mcp/search_mcp/1/model.py *)

MaxOrganic == 6
MaxUrls == 3
MaxSuggestions == 6
MaxValues == 6

\* results.get("organic_results", [])[:5] and suggestions[:5]
TopN == 5

\* article.text[:1000]
ExtractLimit == 1000

Min(a, b) == IF a < b THEN a ELSE b

\* Python's s[:n] of a list
Take(s, n) == SubSeq(s, 1, Min(n, Len(s)))

\* dict.get(key) of a missing key
None == "None"

\* A value Python's `if x:` takes as true, among strings and None
Truthy(x) == x # None /\ x # ""

SeqsUpTo(S, n) == UNION {[1..k -> S] : k \in 0..n}

InitTools == last = [tool |-> "none"]

\* ---- multi_engine_search ----

Links == {"l1", "l2"}

\* An organic result: its "link" (None when the key is missing)
OrganicResults == [link : Links \cup {"", None}]

\* search.get_dict(): with or without "organic_results"
SearchResponses ==
    {[has_organic |-> FALSE, organic_results |-> <<>>]}
    \cup [has_organic : {TRUE}, organic_results : SeqsUpTo(OrganicResults, MaxOrganic)]

RECURSIVE CollectLinks(_)
\* The for-loop of multi_engine_search: links.append(link) `if link`
CollectLinks(rs) ==
    IF rs = <<>> THEN <<>>
    ELSE (IF Truthy(Head(rs).link) THEN <<Head(rs).link>> ELSE <<>>)
         \o CollectLinks(Tail(rs))

MultiEngineSearch(results) ==
    LET organic == IF results.has_organic THEN results.organic_results ELSE <<>>
    IN CollectLinks(Take(organic, TopN))

SearchCall ==
    /\ last.tool = "none"
    /\ \E r \in SearchResponses :
          last' = [tool |-> "multi_engine_search", response |-> r,
                   raised |-> FALSE, result |-> MultiEngineSearch(r)]
    /\ UNCHANGED <<uiVars, clientVars>>

\* ---- extract_web_content_from_links ----

Urls == {"u1", "u2"}
TextIds == {"t1", "t2"}
TextLens == {ExtractLimit - 1, ExtractLimit, ExtractLimit + 1}
Messages == {"download failed"}

\* What Article(url).download()/.parse() does for one URL of the list: the
\* article's text (which text, and how many characters), or an exception
ArticleOutcomes ==
    [ok : {TRUE}, id : TextIds, len : TextLens, msg : {""}]
    \cup [ok : {FALSE}, id : {""}, len : {0}, msg : Messages]

\* A string value of the returned dict: prefix \o the first len characters
\* of text id \o rest
StrValue(prefix, id, len, rest) == [prefix |-> prefix, id |-> id, len |-> len, rest |-> rest]

\* text[:n]
Slice(id, len, n) == StrValue("", id, Min(len, n), "")

\* d[k] = v
Put(d, k, v) == [x \in DOMAIN d \cup {k} |-> IF x = k THEN v ELSE d[x]]

EmptyDict == [x \in {} |-> 0]

ExtractStepAbandon(extracted, url, o) ==
    IF o.ok THEN Put(extracted, url, Slice(o.id, o.len, ExtractLimit)) ELSE extracted

\* One iteration of the for-loop: the try body, or the except clause
ExtractStep(extracted, url, o) ==
    IF o.ok
    THEN Put(extracted, url, Slice(o.id, o.len, ExtractLimit))
    ELSE Put(extracted, url, StrValue("Error extracting content: ", "", 0, o.msg))

RECURSIVE ExtractLoop(_, _, _)
ExtractLoop(urls, outcomes, extracted) ==
    IF urls = <<>> THEN extracted
    ELSE ExtractLoop(Tail(urls), Tail(outcomes),
                     ExtractStep(extracted, Head(urls), Head(outcomes)))

ExtractWebContentFromLinks(urls, outcomes) == ExtractLoop(urls, outcomes, EmptyDict)

ExtractCall ==
    /\ last.tool = "none"
    /\ \E n \in 0..MaxUrls :
          \E urls \in [1..n -> Urls], outcomes \in [1..n -> ArticleOutcomes] :
             last' = [tool |-> "extract_web_content_from_links", urls |-> urls,
                      response |-> outcomes, raised |-> FALSE,
                      result |-> ExtractWebContentFromLinks(urls, outcomes)]
    /\ UNCHANGED <<uiVars, clientVars>>

\* ---- keyword_research ----

Keywords == {"k1", "k2"}

\* A suggestion: its "value" (None when the key is missing)
Suggestions == [value : Keywords \cup {None}]

AutocompleteResponses ==
    {[has_suggestions |-> FALSE, suggestions |-> <<>>]}
    \cup [has_suggestions : {TRUE}, suggestions : SeqsUpTo(Suggestions, MaxSuggestions)]

\* An entry of timeline_data: its "values", one per query, each with a
\* "value" ("7") or without (None)
TimelineEntries ==
    {[has_values |-> FALSE, values |-> <<>>]}
    \cup {[has_values |-> TRUE, values |-> [i \in 1..m |-> v]] :
              m \in 0..MaxValues, v \in {"7", None}}

OlderEntries == {[has_values |-> TRUE, values |-> <<>>],
                 [has_values |-> TRUE, values |-> [i \in 1..TopN |-> "1"]]}

Timelines ==
    {<<>>} \cup {<<e>> : e \in TimelineEntries}
    \cup {<<e1, e2>> : e1 \in OlderEntries, e2 \in TimelineEntries}

\* The trends search.get_dict(): with or without "interest_over_time"
TrendsResponses ==
    {[has_interest |-> FALSE, timeline_data |-> <<>>]}
    \cup [has_interest : {TRUE}, timeline_data : Timelines]

Returned(list, trends) == [raised |-> FALSE, error |-> "", result |-> list, trends_request |-> trends]

Raised(e, trends) == [raised |-> TRUE, error |-> e, result |-> <<>>, trends_request |-> trends]

KeywordEntry(k, score) == [keyword |-> k, relative_popularity_score |-> score]

\* timeline_data[-1]['values'][i].get('value') if timeline_data else "N/A";
\* "KeyError"/"IndexError" stand for the exception the expression raises
LastValue(timeline, i) ==
    IF timeline = <<>> THEN "N/A"
    ELSE LET e == timeline[Len(timeline)] IN
         IF ~e.has_values THEN "KeyError"
         ELSE IF i > Len(e.values) THEN "IndexError"
         ELSE e.values[i]

KeywordResearch(auto, trends) ==
    LET items == Take(IF auto.has_suggestions THEN auto.suggestions ELSE <<>>, TopN)
    IN
    IF \E i \in 1..Len(items) : items[i].value = None
    THEN Raised("KeyError", FALSE)
    ELSE
    LET suggestions == [i \in 1..Len(items) |-> items[i].value] IN
    IF suggestions = <<>>
    THEN Returned(<<[error |-> "Could not fetch keyword suggestions."]>>, FALSE)
    ELSE IF trends.has_interest
    THEN LET scores == [i \in 1..Len(suggestions) |-> LastValue(trends.timeline_data, i)]
             bad == {i \in 1..Len(scores) : scores[i] \in {"KeyError", "IndexError"}}
         IN IF bad # {}
            THEN Raised(scores[CHOOSE i \in bad : \A j \in bad : i <= j], TRUE)
            ELSE Returned([i \in 1..Len(suggestions) |->
                              KeywordEntry(suggestions[i], scores[i])], TRUE)
    ELSE Returned([i \in 1..Len(suggestions) |-> KeywordEntry(suggestions[i], "N/A")], TRUE)

KeywordCall ==
    /\ last.tool = "none"
    /\ \E a \in AutocompleteResponses, t \in TrendsResponses :
          LET r == KeywordResearch(a, t) IN
          last' = [tool |-> "keyword_research", autocomplete |-> a, trends |-> t,
                   raised |-> r.raised, error |-> r.error, result |-> r.result,
                   trends_request |-> r.trends_request]
    /\ UNCHANGED <<uiVars, clientVars>>

\* The call's value (or exception) goes back to the caller; nothing of the
\* call is kept
Reply ==
    /\ last.tool # "none"
    /\ last' = [tool |-> "none"]
    /\ UNCHANGED <<uiVars, clientVars>>

NextTools ==
    \/ SearchCall
    \/ ExtractCall
    \/ KeywordCall
    \/ Reply

-----------------------------------------------------------------------------
(* The test client: src/mcp/search_mcp/client.py *)

ToolNames == {"multi_engine_search", "extract_web_content_from_links", "keyword_research"}

InitClient ==
    /\ cpc = "start"
    /\ session = "closed"
    /\ callLog = <<>>
    /\ printed = <<>>

\* `async with Client(transport=transport) as client:` connects
EnterSession ==
    /\ cpc = "start"
    /\ session' = "open"
    /\ printed' = printed \o <<"=== SerpAPI MCP Server ===", "Available Tools: ">>
    /\ cpc' = "list_tools"
    /\ UNCHANGED <<callLog, uiVars, toolVars>>

\* ... or raises: nothing in main() catches it
EnterSessionFail ==
    /\ cpc = "start"
    /\ printed' = Append(printed, "=== SerpAPI MCP Server ===")
    /\ cpc' = "crashed"
    /\ UNCHANGED <<session, callLog, uiVars, toolVars>>

\* `tools = await client.list_tools()` and the loop printing them: the
\* with-block ends here
ListTools ==
    /\ cpc = "list_tools"
    /\ \E ts \in SUBSET ToolNames :
          printed' = Append(printed, <<"tools", ts>>)
    /\ cpc' = "exit_session"
    /\ UNCHANGED <<session, callLog, uiVars, toolVars>>

\* `except Exception as e: print(...); return`: leaves the with-block and
\* main()
ListToolsFail ==
    /\ cpc = "list_tools"
    /\ printed' = Append(printed, "Error listing tools")
    /\ session' = "exited"
    /\ cpc' = "returned"
    /\ UNCHANGED <<callLog, uiVars, toolVars>>

\* The end of the `async with` block: the session is closed
ExitSession ==
    /\ cpc = "exit_session"
    /\ session' = "exited"
    /\ cpc' = "search"
    /\ UNCHANGED <<callLog, printed, uiVars, toolVars>>

\* What one `await client.call_tool(tool, ...)` in its try/except does: the
\* call is made in the session's current state; it raises, or returns one
\* of the answers; what is printed says which
Called(tool) == Append(callLog, [tool |-> tool, session |-> session])

PrintedAnswers(tool, answers) == {Append(printed, <<tool, a>>) : a \in answers \cup {"Error"}}

CallSearch ==
    /\ cpc = "search"
    /\ callLog' = Called("multi_engine_search")
    /\ printed' \in PrintedAnswers("multi_engine_search",
                       {"Top 5 links:", "Unexpected response format: not a list"})
    /\ cpc' = "extract"
    /\ UNCHANGED <<session, uiVars, toolVars>>

CallExtract ==
    /\ cpc = "extract"
    /\ callLog' = Called("extract_web_content_from_links")
    /\ printed' \in PrintedAnswers("extract_web_content_from_links", {"Extracted Content"})
    /\ cpc' = "keyword"
    /\ UNCHANGED <<session, uiVars, toolVars>>

CallKeyword ==
    /\ cpc = "keyword"
    /\ callLog' = Called("keyword_research")
    /\ printed' \in PrintedAnswers("keyword_research", {"Keyword research results:"})
    /\ cpc' = "done"
    /\ UNCHANGED <<session, uiVars, toolVars>>

NextClient ==
    \/ EnterSession
    \/ EnterSessionFail
    \/ ListTools
    \/ ListToolsFail
    \/ ExitSession
    \/ CallSearch
    \/ CallExtract
    \/ CallKeyword

-----------------------------------------------------------------------------
(* Specifications *)

Init == InitUI /\ InitTools /\ InitClient

SpecUI == Init /\ [][NextUI]_vars

SpecTools == Init /\ [][NextTools]_vars

SpecClient == Init /\ [][NextClient]_vars

-----------------------------------------------------------------------------
(* Properties of the front ends, under SpecUI *)

\* A topic that is empty or holds whitespace only
IsBlank(t) == \A i \in 1..Len(t) : t[i] \in Whitespace

ShownWith(w, body) ==
    \E i \in 1..Len(display) : display[i].widget = w /\ display[i].body = body

Clicked == generate_button /\ pc \notin {"start", "branch"}

\* C1: in both variants, a click on Generate with an empty or whitespace-only
\* topic shows 'Please enter a topic for the blog post.' and triggers no
\* generation: no task or crew is created, no kickoff happens, no MCP server
\* connection is opened, and no success message or download is shown.
C1_BlankTopicRejected ==
    (Clicked /\ IsBlank(topic)) =>
        /\ pc \in {"sidebar", "done"}
        /\ ShownWith("error", <<BlankTopicError>>)
        /\ genStarted = 0
        /\ tasksCreated = 0
        /\ crewsCreated = 0
        /\ kickoffs = 0
        /\ connectAttempts = 0
        /\ ~mcpOpen
        /\ ~Shown("success")
        /\ ~Shown("markdown")
        /\ ~Shown("download")

C1_Witness ==
    /\ pc = "done"
    /\ generate_button
    /\ topic = <<" ", "\t">>
    /\ ShownWith("error", <<BlankTopicError>>)

\* What C2 says of exceptions: none leaves main(); one that was raised is
\* shown as an error message; a run whose kickoff failed shows no success
\* message, Markdown or download button; the sidebar is rendered at the end.
ExceptionsCaughtAndShown ==
    /\ pc # "propagated"
    /\ (exc # "none" /\ pc \in {"sidebar", "done"})
          => ShownWith("error", <<ErrorPrefix(variant), exc>>)
    /\ exc = "TaskError"
          => ~Shown("success") /\ ~Shown("markdown") /\ ~Shown("download")
    /\ pc = "done"
          => display[Len(display)].widget = "sidebar"

\* C2 as stated: for every click with a non-blank topic generation is
\* started exactly once, with one crew kickoff and no retry, and every
\* exception raised while generating is caught and displayed.
C2_ExactlyOneKickoff ==
    /\ (Clicked /\ ~IsBlank(topic)) => genStarted = 1
    /\ (pc = "done" /\ generate_button /\ ~IsBlank(topic)) => kickoffs = 1
    /\ kickoffs <= 1
    /\ ExceptionsCaughtAndShown

\* C2, amended: for every click with a non-blank topic generation is started
\* exactly once and never retried: there is at most one crew kickoff, and
\* exactly one unless, in the MCP variant, connecting to the tool server
\* raised (then none); every exception raised while generating is caught and
\* displayed, as ExceptionsCaughtAndShown says.
C2_AtMostOneKickoff ==
    /\ (Clicked /\ ~IsBlank(topic)) => genStarted = 1
    /\ (pc = "done" /\ generate_button /\ ~IsBlank(topic))
          => kickoffs = (IF variant = "mcp" /\ ~Shown("info") THEN 0 ELSE 1)
    /\ kickoffs <= 1
    /\ crewsCreated <= 1
    /\ connectAttempts <= 1
    /\ ExceptionsCaughtAndShown

C2_Witness ==
    /\ pc = "done"
    /\ variant = "mcp"
    /\ generate_button
    /\ topic = <<"a">>
    /\ exc = "ConnectionError"
    /\ connectAttempts = 1
    /\ kickoffs = 0
    /\ ShownWith("error", <<"An error occurred: ", "ConnectionError">>)
    /\ Shown("sidebar")

\* The order the crew lists its tasks in, as the claim gives it
ListedOrder ==
    IF variant = "direct"
    THEN <<"research_task", "writing_task">>
    ELSE <<"plan_task", "write_task", "edit_task">>

Started(t) == taskState[t] \in {"running", "done", "failed"}

\* C3: the tasks of a run are executed one at a time in the order the crew
\* lists them (research, writing; plan, write, edit); no task starts before
\* the task named in its context is done, and every task after the first is
\* started with exactly the output of the task before it as its context.
C3_SequentialWithContext ==
    /\ Cardinality({t \in AllTasks : taskState[t] = "running"}) <= 1
    /\ Len(startOrder) <= Len(ListedOrder)
    /\ startOrder = SubSeq(ListedOrder, 1, Len(startOrder))
    /\ \A i \in 1..Len(startOrder) :
          /\ Started(startOrder[i])
          /\ \A j \in 1..(i - 1) : Done(startOrder[j])
          /\ taskContextSeen[startOrder[i]] =
                IF i = 1 THEN <<>> ELSE <<taskOutput[startOrder[i - 1]]>>
    /\ \A t \in AllTasks :
          Started(t) =>
             /\ \E i \in 1..Len(startOrder) : startOrder[i] = t
             /\ \A c \in {TaskContext(t)[k] : k \in 1..Len(TaskContext(t))} : Done(c)

C3_Witness ==
    /\ variant = "mcp"
    /\ taskState["edit_task"] = "running"
    /\ taskOutput["plan_task"] = "o1"
    /\ taskOutput["write_task"] = "o2"
    /\ taskContextSeen["write_task"] = <<"o1">>
    /\ taskContextSeen["edit_task"] = <<"o2">>

\* C9: for one click the success message and an error message exclude each
\* other, and whenever the success message is shown the generated Markdown
\* is rendered and the download button offers the same content under the
\* file name made of the topic with every space replaced by an underscore
\* (lower-cased in the MCP variant) and the fixed suffix.
C9_SuccessExcludesError ==
    /\ ~(Shown("success") /\ Shown("error"))
    /\ (Shown("success") /\ pc \in {"sidebar", "done"}) =>
          \E i, j \in 1..Len(display) :
             /\ display[i].widget = "markdown"
             /\ display[j].widget = "download"
             /\ display[i].body = <<result.raw>>
             /\ display[j].body = display[i].body
             /\ display[j].file_name =
                   [k \in 1..Len(topic) |->
                       LET c == IF topic[k] = " " THEN "_" ELSE topic[k]
                       IN IF variant = "mcp" /\ c = "B" THEN "b" ELSE c]
                   \o <<IF variant = "mcp" THEN "_blog.md" ELSE "_blog_post.md">>

-----------------------------------------------------------------------------
(* Properties of the tool functions, under SpecTools *)

RECURSIVE LinkedResults(_)
\* The links of those organic results that have one, in order
LinkedResults(rs) ==
    IF rs = <<>> THEN <<>>
    ELSE (IF Head(rs).link \in Links THEN <<Head(rs).link>> ELSE <<>>)
         \o LinkedResults(Tail(rs))

\* C5: multi_engine_search returns at most 5 links, the links of the leading
\* organic results in the engine's order; exactly 5 whenever the response
\* holds at least 5 organic results that have a link; the empty list when
\* the response has no 'organic_results'.
C5_TopFiveLinks ==
    last.tool = "multi_engine_search" =>
        LET all == LinkedResults(last.response.organic_results) IN
        /\ ~last.raised
        /\ Len(last.result) <= 5
        /\ last.result = SubSeq(all, 1, Len(last.result))
        /\ Len(all) >= 5 => Len(last.result) = 5
        /\ ~last.response.has_organic => last.result = <<>>

\* Index of the last occurrence of url u in the list
LastIndexOf(urls, u) ==
    CHOOSE i \in 1..Len(urls) : urls[i] = u /\ \A j \in (i + 1)..Len(urls) : urls[j] # u

\* C6: extract_web_content_from_links returns a mapping whose keys are
\* exactly the distinct input URLs, whatever failed; the value of a URL that
\* succeeded is the first 1000 characters of its text (all of it when
\* shorter), the value of a URL that failed is 'Error extracting content: '
\* followed by the exception's message.  (A URL listed more than once is
\* fetched once per occurrence; its value is that of its last occurrence.)
C6_ExtractKeepsEveryUrl ==
    last.tool = "extract_web_content_from_links" =>
        /\ ~last.raised
        /\ DOMAIN last.result = {last.urls[i] : i \in 1..Len(last.urls)}
        /\ \A u \in DOMAIN last.result :
              LET o == last.response[LastIndexOf(last.urls, u)]
                  v == last.result[u]
              IN IF o.ok
                 THEN /\ v.prefix = "" /\ v.rest = ""
                      /\ v.id = o.id
                      /\ v.len = (IF o.len < 1000 THEN o.len ELSE 1000)
                      /\ v.len <= 1000
                 ELSE /\ v.prefix = "Error extracting content: "
                      /\ v.rest = o.msg
                      /\ v.len = 0

C6_Witness ==
    /\ last.tool = "extract_web_content_from_links"
    /\ last.urls = <<"u1", "u2", "u1">>
    /\ ~last.response[1].ok
    /\ last.response[2].ok /\ last.response[2].len = 1001
    /\ last.response[3].ok /\ last.response[3].len = 999
    /\ DOMAIN last.result = {"u1", "u2"}
    /\ last.result["u2"].len = 1000

\* C7: keyword_research returns a list for every autocomplete and every
\* trends response: the single entry {"error": "Could not fetch keyword
\* suggestions."} and no trends request when there are no suggestions;
\* otherwise one entry per suggestion taken (the first at most 5), in
\* order, each with the fields 'keyword' and 'relative_popularity_score'.
C7_KeywordResearchReturnsList ==
    last.tool = "keyword_research" =>
        LET given == IF last.autocomplete.has_suggestions
                     THEN last.autocomplete.suggestions ELSE <<>>
            n == IF Len(given) < 5 THEN Len(given) ELSE 5
        IN
        /\ ~last.raised
        /\ n = 0 =>
              /\ last.result = <<[error |-> "Could not fetch keyword suggestions."]>>
              /\ ~last.trends_request
        /\ n > 0 =>
              /\ Len(last.result) = n
              /\ \A i \in 1..n :
                    /\ DOMAIN last.result[i] = {"keyword", "relative_popularity_score"}
                    /\ last.result[i].keyword = given[i].value

-----------------------------------------------------------------------------
(* Properties of the test client, under SpecClient *)

\* C8: every call_tool of the client is issued while the session opened over
\* the streaming HTTP transport is open: none before it is entered, none
\* after it is exited.
C8_CallsWithinSession ==
    \A i \in 1..Len(callLog) : callLog[i].session = "open"

=============================================================================
